---- MODULE Spec2Model ----
(***************************************************************************)
(* Model of the YAML -> SDF schema compiler of kairos-yaml                 *)
(* (src/sdf/yaml2sdf.py, input classes of src/sdf/yaml_schema.py).         *)
(*                                                                         *)
(* A Python str is a sequence of one-character strings, so that split,     *)
(* strip, lower and chr act on characters as they do in the code.  A dict  *)
(* is a function from its keys; a key that was never set is absent from    *)
(* the function's domain.                                                  *)
(***************************************************************************)
EXTENDS Integers, Sequences, FiniteSets, TLC

----------------------------------------------------------------------------
(* Python values *)

\* None where a str is expected: no str has a character of four letters.
None == <<"None">>

\* None where a Sequence[str] is expected (Slot.constraints).
NoneList == <<None>>

\* None where a Mapping is expected (the ONTOLOGY global before its load).
NoneMapping == [None |-> TRUE]

\* The characters of codes 48 to 57, 65 to 90 and 97 to 126, in code order.
Digits == <<"0", "1", "2", "3", "4", "5", "6", "7", "8", "9">>
Upper == <<"A", "B", "C", "D", "E", "F", "G", "H", "I", "J", "K", "L", "M",
           "N", "O", "P", "Q", "R", "S", "T", "U", "V", "W", "X", "Y", "Z">>
Lower == <<"a", "b", "c", "d", "e", "f", "g", "h", "i", "j", "k", "l", "m",
           "n", "o", "p", "q", "r", "s", "t", "u", "v", "w", "x", "y", "z",
           "{", "|", "}", "~">>

\* chr(n), for the codes of digits, of upper case letters and from "a" on.
chr(n) ==
  IF n \in 48..57 THEN Digits[n - 47]
  ELSE IF n \in 65..90 THEN Upper[n - 64]
  ELSE Lower[n - 96]

\* str.isupper() of one character.
isupper(c) == c \in {Upper[i] : i \in 1..26}

\* str.lower() of one character.
lower_char(c) == IF isupper(c) THEN Lower[CHOOSE i \in 1..26 : Upper[i] = c] ELSE c

\* str.lower().
lower(s) == [i \in 1..Len(s) |-> lower_char(s[i])]

\* The characters str.split() and str.lstrip() take for whitespace.
isspace(c) == c \in {" ", "\t", "\n", "\r"}

\* str(n) of a non-negative int.
RECURSIVE str(_)
str(n) == IF n < 10 THEN <<chr(48 + n)>> ELSE str(n \div 10) \o <<chr(48 + (n % 10))>>

\* "".join(parts): the concatenation of a list of strs.
RECURSIVE concat(_)
concat(parts) == IF parts = <<>> THEN <<>> ELSE Head(parts) \o concat(Tail(parts))

\* sep.join(parts).
RECURSIVE join(_, _)
join(sep, parts) ==
  IF parts = <<>> THEN <<>>
  ELSE IF Len(parts) = 1 THEN Head(parts)
  ELSE Head(parts) \o sep \o join(sep, Tail(parts))

\* s.split(sep) for a one-character sep: every occurrence cuts, empty pieces are kept.
RECURSIVE split(_, _)
split(s, sep) ==
  IF \A i \in 1..Len(s) : s[i] # sep THEN <<s>>
  ELSE LET i == CHOOSE j \in 1..Len(s) : s[j] = sep /\ \A h \in 1..(j - 1) : s[h] # sep
       IN  <<SubSeq(s, 1, i - 1)>> \o split(SubSeq(s, i + 1, Len(s)), sep)

\* s.lstrip(): leading whitespace removed.
RECURSIVE lstrip(_)
lstrip(s) == IF s # <<>> /\ isspace(Head(s)) THEN lstrip(Tail(s)) ELSE s

\* s.split(): cut at runs of whitespace, no empty pieces.
RECURSIVE split_ws(_)
split_ws(s) ==
  LET t == lstrip(s)
  IN  IF t = <<>> THEN <<>>
      ELSE IF \A i \in 1..Len(t) : ~isspace(t[i]) THEN <<t>>
      ELSE LET i == CHOOSE j \in 1..Len(t) : isspace(t[j]) /\ \A h \in 1..(j - 1) : ~isspace(t[h])
           IN  <<SubSeq(t, 1, i - 1)>> \o split_ws(SubSeq(t, i + 1, Len(t)))

\* s.strip(chars): every leading and every trailing character that is in chars is removed.
RECURSIVE strip(_, _)
strip(s, chars) ==
  IF s = <<>> THEN s
  ELSE IF Head(s) \in chars THEN strip(Tail(s), chars)
  ELSE IF s[Len(s)] \in chars THEN strip(SubSeq(s, 1, Len(s) - 1), chars)
  ELSE s

\* s.replace(old, new) for one-character old and new.
replace(s, old, new) == [i \in 1..Len(s) |-> IF s[i] = old THEN new ELSE s[i]]

\* The characters of a str, as the set that str.strip(chars) tests membership in.
chars_of(s) == {s[i] : i \in 1..Len(s)}

\* set(s) of a list or tuple.
elements(s) == {s[i] : i \in 1..Len(s)}

\* d[k] = v of a dict.
put(d, k, v) == (k :> v) @@ d

\* `if cond: d[k] = v`.
put_if(cond, d, k, v) == IF cond THEN (k :> v) @@ d ELSE d

\* del d[k] of a dict.
del(d, k) == [x \in DOMAIN d \ {k} |-> d[x]]

\* Counter.__getitem__: a missing key counts 0.
count(counter, k) == IF k \in DOMAIN counter THEN counter[k] ELSE 0

\* logging.warning / logging.error / print: one record appended to the output.
emit(m, level, what, args) ==
  [m EXCEPT !.log = Append(@, [level |-> level, what |-> what, args |-> args])]

\* `if cond: logging.warning(...)`.
warn_if(cond, m, what, args) == IF cond THEN emit(m, "WARNING", what, args) ELSE m

----------------------------------------------------------------------------
(* State *)

VARIABLES
  ontology_file,        \* the document at the path "ontology.json"
  ONTOLOGY,             \* the module global of yaml2sdf.py
  opens,                \* how many times ontology.json has been opened and read
  calls,                \* how many times get_ontology has been called
  parsed_yaml,          \* convert_all_yaml_to_sdf: the parsed input schemas
  pc,                   \* the statement the process is at
  cur,                  \* convert_all_yaml_to_sdf: index of yaml_schema in parsed_yaml
  schema,               \* convert_yaml_to_sdf: the schema dict
  steps,                \* convert_yaml_to_sdf: the steps list
  entity_map,           \* convert_yaml_to_sdf: slot @id -> refvar or random placeholder
  step_map,             \* convert_yaml_to_sdf: step id -> {id, step_idx}
  schema_slot_counter,  \* convert_yaml_to_sdf: Counter of derived slot names
  sdf_schemas,          \* convert_all_yaml_to_sdf: the converted schemas
  json_data,            \* convert_all_yaml_to_sdf: the merged library
  returned,             \* what convert_all_yaml_to_sdf returned
  log                   \* the logging and print output of the process

vars == <<ontology_file, ONTOLOGY, opens, calls, parsed_yaml, pc, cur, schema, steps,
          entity_map, step_map, schema_slot_counter, sdf_schemas, json_data, returned, log>>

\* The mutable state the helper functions reach: the globals, the log, and the
\* counter and entity map that convert_yaml_to_sdf passes to them by reference.
Mem == [ONTOLOGY |-> ONTOLOGY, opens |-> opens, calls |-> calls, log |-> log,
        schema_slot_counter |-> schema_slot_counter, entity_map |-> entity_map]

----------------------------------------------------------------------------
(* yaml2sdf.py, the helpers *)

\* get_ontology with the `if ONTOLOGY is None` test left out.
get_ontology_always_reads(m) ==
  [m EXCEPT !.ONTOLOGY = ontology_file, !.opens = @ + 1, !.calls = @ + 1]

get_ontology(m) ==
  IF m.ONTOLOGY = NoneMapping
  THEN [m EXCEPT !.ONTOLOGY = ontology_file, !.opens = @ + 1, !.calls = @ + 1]
  ELSE [m EXCEPT !.calls = @ + 1]

\* Lines 53-54, on the state m that get_ontology() leaves.
primitive_checked(primitive, step, m) ==
  warn_if(primitive \notin DOMAIN m.ONTOLOGY.events, m,
          "Primitive not in ontology", <<step.primitive, step.id>>)

\* get_step_type that pads to two segments only.
get_step_type_short_pad(step, m) ==
  LET primitive_segments == split(step.primitive, ".")
      extended == IF Len(primitive_segments) < 2
                  THEN primitive_segments \o [i \in 1..(2 - Len(primitive_segments)) |-> <<"U", "n", "s", "p", "e", "c", "i", "f", "i", "e", "d">>]
                  ELSE primitive_segments
      primitive == join(<<".">>, extended)
  IN  [ret |-> <<"k", "a", "i", "r", "o", "s", ":", "P", "r", "i", "m", "i", "t", "i", "v", "e", "s", "/", "E", "v", "e", "n", "t", "s", "/">> \o primitive,
       m |-> primitive_checked(primitive, step, get_ontology(m))]

get_step_type(step, m) ==
  LET primitive_segments == split(step.primitive, ".")
      extended == IF Len(primitive_segments) < 3
                  THEN primitive_segments \o [i \in 1..(3 - Len(primitive_segments)) |-> <<"U", "n", "s", "p", "e", "c", "i", "f", "i", "e", "d">>]
                  ELSE primitive_segments
      primitive == join(<<".">>, extended)
  IN  [ret |-> <<"k", "a", "i", "r", "o", "s", ":", "P", "r", "i", "m", "i", "t", "i", "v", "e", "s", "/", "E", "v", "e", "n", "t", "s", "/">> \o primitive,
       m |-> primitive_checked(primitive, step, get_ontology(m))]

\* Lines 69-71, on the state m that get_ontology() leaves.
role_checked(slot, key, m) ==
  IF key \in DOMAIN m.ONTOLOGY.events
  THEN warn_if(slot.role \notin m.ONTOLOGY.events[key].args, m,
               "Role is not valid for event", <<slot.role, m.ONTOLOGY.events[key].type>>)
  ELSE m

\* s.split("/")[-1].
last_segment(s) == split(s, "/")[Len(split(s, "/"))]

get_slot_role(slot, step_type, m) ==
  [ret |-> step_type \o <<"/", "S", "l", "o", "t", "s", "/">> \o slot.role,
   m |-> role_checked(slot, last_segment(step_type), get_ontology(m))]

\* The name without line 88: the refvar is never appended.
get_slot_name_without_refvar(slot, slot_shared) ==
  lower(split_ws(lstrip(concat([i \in 1..Len(slot.role) |->
    IF isupper(slot.role[i]) THEN <<" ", slot.role[i]>> ELSE <<slot.role[i]>>])))[1])

get_slot_name(slot, slot_shared) ==
  LET spaced == lstrip(concat([i \in 1..Len(slot.role) |->
                    IF isupper(slot.role[i]) THEN <<" ", slot.role[i]>> ELSE <<slot.role[i]>>]))
      name == lower(split_ws(spaced)[1])
  IN  IF slot_shared /\ slot.refvar # None THEN name \o <<"-">> \o slot.refvar ELSE name

\* Lines 107 and 109 without the increment of line 108.
next_slot_id_counter_kept(slot_name, m, schema_id) ==
  [ret |-> schema_id \o <<"/", "S", "l", "o", "t", "s", "/">> \o slot_name \o <<"-">>
             \o <<chr(count(m.schema_slot_counter, slot_name) + 97)>>,
   m |-> [m EXCEPT !.schema_slot_counter = put(@, slot_name, count(@, slot_name))]]

\* Lines 107-109 for the derived name slot_name.
next_slot_id(slot_name, m, schema_id) ==
  [ret |-> schema_id \o <<"/", "S", "l", "o", "t", "s", "/">> \o slot_name \o <<"-">>
             \o <<chr(count(m.schema_slot_counter, slot_name) + 97)>>,
   m |-> [m EXCEPT !.schema_slot_counter = put(@, slot_name, count(@, slot_name) + 1)]]

get_slot_id(slot, m, schema_id, slot_shared) ==
  next_slot_id(get_slot_name(slot, slot_shared), m, schema_id)

\* The `for entity in constraints` loop of get_slot_constraints.
\* Line 122-123, on the state m that get_ontology() leaves.
entity_checked(entity, m) ==
  warn_if(entity \notin m.ONTOLOGY.entities, m, "Entity not in ontology", <<entity>>)

RECURSIVE check_entities(_, _)
check_entities(constraints, m) ==
  IF constraints = <<>> THEN m
  ELSE check_entities(Tail(constraints), entity_checked(Head(constraints), get_ontology(m)))

\* get_slot_constraints that leaves out the entities the ontology does not know.
get_slot_constraints_known_only(constraints, m) ==
  [ret |-> [i \in 1..Len(SelectSeq(constraints, LAMBDA e : e \in ontology_file.entities)) |->
              <<"k", "a", "i", "r", "o", "s", ":", "P", "r", "i", "m", "i", "t", "i", "v", "e", "s", "/", "E", "n", "t", "i", "t", "i", "e", "s", "/">>
                \o SelectSeq(constraints, LAMBDA e : e \in ontology_file.entities)[i]],
   m |-> check_entities(constraints, m)]

get_slot_constraints(constraints, m) ==
  [ret |-> [i \in 1..Len(constraints) |-> <<"k", "a", "i", "r", "o", "s", ":", "P", "r", "i", "m", "i", "t", "i", "v", "e", "s", "/", "E", "n", "t", "i", "t", "i", "e", "s", "/">> \o constraints[i]],
   m |-> check_entities(constraints, m)]

\* Lines 143-153 and 163-164: the keys of cur_slot other than refvar.
slot_dict(slot, name, id, role, constraints) ==
  put_if(slot.comment # None,
    put_if(slot.reference # None,
      put_if(constraints # <<>>,
        ("name" :> name) @@ ("@id" :> id) @@ ("role" :> role),
        "entityTypes", constraints),
      "reference", slot.reference),
    "comment", slot.comment)

\* Lines 156-161 with the random placeholder written into the slot as well.
with_refvar_placeholder_kept(slot, cur_slot, m, random) ==
  IF slot.refvar # None
  THEN [ret |-> put(cur_slot, "refvar", slot.refvar),
        m |-> [m EXCEPT !.entity_map = put(@, cur_slot["@id"], slot.refvar)]]
  ELSE [ret |-> put(cur_slot, "refvar", random),
        m |-> [emit(m, "WARNING", "misses refvar", <<slot.role>>)
                 EXCEPT !.entity_map = put(@, cur_slot["@id"], random)]]

\* Lines 156-161 with the refvar recorded in the entity map only.
with_refvar_not_copied(slot, cur_slot, m, random) ==
  IF slot.refvar # None
  THEN [ret |-> cur_slot,
        m |-> [m EXCEPT !.entity_map = put(@, cur_slot["@id"], slot.refvar)]]
  ELSE [ret |-> cur_slot,
        m |-> [emit(m, "WARNING", "misses refvar", <<slot.role>>)
                 EXCEPT !.entity_map = put(@, cur_slot["@id"], random)]]

\* Lines 156-161; random is the str(random.random()) that line 161 draws.
with_refvar(slot, cur_slot, m, random) ==
  IF slot.refvar # None
  THEN [ret |-> put(cur_slot, "refvar", slot.refvar),
        m |-> [m EXCEPT !.entity_map = put(@, cur_slot["@id"], slot.refvar)]]
  ELSE [ret |-> cur_slot,
        m |-> [emit(m, "WARNING", "misses refvar", <<slot.role>>)
                 EXCEPT !.entity_map = put(@, cur_slot["@id"], random)]]

\* Lines 156-166, once get_slot_constraints has returned.
slot_after_constraints(slot, name, id, role, constraints, random) ==
  with_refvar(slot, slot_dict(slot, name, id, role, constraints.ret), constraints.m, random)

\* Lines 149-166, once get_slot_role has returned.
slot_after_role(slot, name, id, role, random) ==
  slot_after_constraints(slot, name, id, role.ret,
                         get_slot_constraints(IF slot.constraints # NoneList
                                              THEN slot.constraints ELSE <<>>, role.m),
                         random)

\* Lines 146-166, once get_slot_id has returned.
slot_after_id(slot, step_type, name, id, random) ==
  slot_after_role(slot, name, id.ret, get_slot_role(slot, step_type, id.m), random)

create_slot(slot, m, schema_id, step_type, slot_shared, random) ==
  slot_after_id(slot, step_type, get_slot_name(slot, slot_shared),
                get_slot_id(slot, m, schema_id, slot_shared), random)

get_step_id(step, schema_id) == schema_id \o <<"/", "S", "t", "e", "p", "s", "/">> \o step.id

\* slot_shared of lines 245 and 255: the role occurs more than once in the container.
slot_shared_in(slot, container) ==
  Cardinality({i \in 1..Len(container) : container[i].role = slot.role}) > 1

\* Lines 258-259 without the del: roleName is added and role is kept.
renamed_role_kept(top_level, parsed_slot) ==
  IF top_level THEN put(parsed_slot, "roleName", parsed_slot["role"]) ELSE parsed_slot

\* Lines 258-259: the role key of a schema-level slot becomes roleName.
renamed(top_level, parsed_slot) ==
  IF top_level THEN del(put(parsed_slot, "roleName", parsed_slot["role"]), "role")
  ELSE parsed_slot

\* The slot list grown by one slot and the state handed on.
appended(one, rest) == [ret |-> <<one>> \o rest.ret, m |-> rest.m]

RECURSIVE create_slots(_, _, _, _, _, _, _)

\* The rest of the loop once slot i is created.
slots_from(one, container, i, schema_id, step_type, randoms, top_level) ==
  appended(renamed(top_level, one.ret),
           create_slots(container, i + 1, one.m, schema_id, step_type, randoms, top_level))

\* The `for slot in ...` loops of lines 244-248 and 254-261, from the i-th slot on.
create_slots(container, i, m, schema_id, step_type, randoms, top_level) ==
  IF i > Len(container) THEN [ret |-> <<>>, m |-> m]
  ELSE slots_from(create_slot(container[i], m, schema_id, step_type,
                              slot_shared_in(container[i], container), randoms[i]),
                  container, i, schema_id, step_type, randoms, top_level)

----------------------------------------------------------------------------
(* yaml2sdf.py, convert_yaml_to_sdf *)

yaml_data == parsed_yaml[cur]

\* Lines 208-209: the "Steps:" header and one numbered line per step.
get_comments(data) ==
  <<<<"S", "t", "e", "p", "s", ":">>>> \o
  [i \in 1..Len(data.steps) |-> str(i) \o <<".", " ">> \o replace(data.steps[i].id, "-", " ")]

\* Lines 195-226: the schema dict and the empty working collections.
BeginSchema ==
  /\ pc = "convert_all"
  /\ cur <= Len(parsed_yaml)
  /\ schema' = ("@id" :> yaml_data.schema_id) @@ ("comment" :> get_comments(yaml_data)) @@
               ("super" :> <<"k", "a", "i", "r", "o", "s", ":", "E", "v", "e", "n", "t">>) @@ ("name" :> yaml_data.schema_name) @@
               ("description" :> yaml_data.schema_dscpt) @@
               ("version" :> yaml_data.schema_version) @@
               ("steps" :> <<>>) @@ ("order" :> <<>>) @@ ("entityRelations" :> <<>>)
  /\ steps' = <<>>
  /\ entity_map' = <<>>
  /\ step_map' = <<>>
  /\ schema_slot_counter' = <<>>
  /\ pc' = "steps"
  /\ UNCHANGED <<ontology_file, ONTOLOGY, opens, calls, parsed_yaml, cur, sdf_schemas,
                 json_data, returned, log>>

\* The values str(random.random()) may take.
Randoms == {<<"0", ".", "1">>, <<"0", ".", "9">>}

\* The state the helpers leave, written back.
SetMem(m) ==
  /\ ONTOLOGY' = m.ONTOLOGY
  /\ opens' = m.opens
  /\ calls' = m.calls
  /\ log' = m.log
  /\ schema_slot_counter' = m.schema_slot_counter
  /\ entity_map' = m.entity_map

\* Lines 229-236: cur_step before its participants.
step_dict(step, idx, id, type, comments) ==
  ("@id" :> id) @@ ("name" :> step.id) @@ ("@type" :> type) @@
  ("comment" :> IF step.comment # None
                THEN comments[idx + 2] \o <<"\n">> \o step.comment
                ELSE comments[idx + 2])

\* Lines 241 and 250-251.
StepAppended(cur_step, slots) ==
  /\ step_map' = put(step_map, cur_step["name"],
                     [id |-> cur_step["@id"], step_idx |-> Len(steps) + 1])
  /\ steps' = Append(steps, put(cur_step, "participants", slots.ret))
  /\ SetMem(slots.m)

\* Lines 243-251, once get_step_type has returned.
StepConverted(step, idx, type) ==
  \E randoms \in [1..Len(step.slots) -> Randoms] :
    StepAppended(step_dict(step, idx, get_step_id(step, schema["@id"]), type.ret,
                           schema["comment"]),
                 create_slots(step.slots, 1, type.m, schema["@id"], type.ret, randoms, FALSE))

\* Lines 228-251: one iteration of `for idx, step in enumerate(yaml_data.steps)`.
ConvertStep ==
  /\ pc = "steps"
  /\ Len(steps) < Len(yaml_data.steps)
  /\ StepConverted(yaml_data.steps[Len(steps) + 1], Len(steps),
                   get_step_type(yaml_data.steps[Len(steps) + 1], Mem))
  /\ UNCHANGED <<ontology_file, parsed_yaml, pc, cur, schema, sdf_schemas, json_data, returned>>

\* Lines 262.
SlotsStored(slots) ==
  /\ schema' = put(schema, "slots", slots.ret)
  /\ SetMem(slots.m)

\* Lines 253-262: the schema's own slots, once every step is converted.
ConvertSlots ==
  /\ pc = "steps"
  /\ Len(steps) = Len(yaml_data.steps)
  /\ \E randoms \in [1..Len(yaml_data.slots) -> Randoms] :
       SlotsStored(create_slots(yaml_data.slots, 1, Mem, schema["@id"], schema["@id"],
                                randoms, TRUE))
  /\ pc' = "clean"
  /\ UNCHANGED <<ontology_file, parsed_yaml, cur, steps, step_map, sdf_schemas, json_data, returned>>

\* Lines 268-273 for a slot whose @id is a key of the entity map.
slot_cleaned(cur_slot, id, map) ==
  [ret |-> put(cur_slot, "@id", id),
   entity_map |-> put(del(map, cur_slot["@id"]), id, map[cur_slot["@id"]]),
   KeyError |-> FALSE]

\* The suffix cleanup left out altogether.
clean_slot_never(cur_slot, counter, map) ==
  [ret |-> cur_slot, entity_map |-> map, KeyError |-> FALSE]

\* Lines 267-273: the body of the cleanup loop for one participant.
clean_slot(cur_slot, counter, map) ==
  IF count(counter, cur_slot["name"]) = 1
  THEN IF cur_slot["@id"] \notin DOMAIN map
       THEN [ret |-> cur_slot, entity_map |-> map, KeyError |-> TRUE]
       ELSE slot_cleaned(cur_slot, strip(cur_slot["@id"], chars_of(<<"-", "a">>)), map)
  ELSE [ret |-> cur_slot, entity_map |-> map, KeyError |-> FALSE]

RECURSIVE clean_steps(_, _, _, _, _)

\* The rest of the cleanup loops once participant j of step i is cleaned.
clean_from(one, done, i, j, counter, map) ==
  IF one.KeyError THEN [ret |-> done, entity_map |-> map, KeyError |-> TRUE]
  ELSE clean_steps([done EXCEPT ![i] = put(@, "participants",
                                           [@["participants"] EXCEPT ![j] = one.ret])],
                   i, j + 1, counter, one.entity_map)

\* Lines 265-273: the cleanup loops, from participant j of step i on.
clean_steps(done, i, j, counter, map) ==
  IF i > Len(done) THEN [ret |-> done, entity_map |-> map, KeyError |-> FALSE]
  ELSE IF j > Len(done[i]["participants"]) THEN clean_steps(done, i + 1, 1, counter, map)
  ELSE clean_from(clean_slot(done[i]["participants"][j], counter, map),
                  done, i, j, counter, map)

\* Lines 274-275, or the KeyError of line 268.
SuffixCleaned(cleaned) ==
  IF cleaned.KeyError
  THEN /\ pc' = "raised"
       /\ UNCHANGED <<steps, entity_map, schema>>
  ELSE /\ steps' = cleaned.ret
       /\ entity_map' = cleaned.entity_map
       /\ schema' = put(schema, "steps", cleaned.ret)
       /\ pc' = "order"

\* Lines 264-275.
CleanSuffix ==
  /\ pc = "clean"
  /\ SuffixCleaned(clean_steps(steps, 1, 1, schema_slot_counter, entity_map))
  /\ UNCHANGED <<ontology_file, ONTOLOGY, opens, calls, parsed_yaml, cur, step_map,
                 schema_slot_counter, sdf_schemas, json_data, returned, log>>

\* Lines 280-285: the step ids one order relation names.
order_tuple(order) ==
  IF "before" \in DOMAIN order THEN <<order.before, order.after>>
  ELSE IF "container" \in DOMAIN order THEN <<order.container, order.contained>>
  ELSE order.overlaps

\* Lines 277-289.
missing_order_ids(data) ==
  LET step_ids == {data.steps[i].id : i \in 1..Len(data.steps)}
      order_ids == UNION {elements(order_tuple(data.order[i])) : i \in 1..Len(data.order)}
  IN  order_ids \ step_ids

\* Lines 291-292 reporting the first missing id only.
missing_id_errors_first_only(missing) ==
  {<<[level |-> "ERROR", what |-> "ID in order is not in steps", args |-> <<id>>]>> :
     id \in missing}

\* Lines 291-292: one logging.error per element of the set, in the order the set
\* happens to iterate in.
missing_id_errors(missing) ==
  {[i \in 1..Cardinality(missing) |->
      [level |-> "ERROR", what |-> "ID in order is not in steps", args |-> <<ids[i]>>]] :
     ids \in {f \in [1..Cardinality(missing) -> missing] :
                \A a, b \in 1..Cardinality(missing) : a # b => f[a] # f[b]}}

\* Lines 277-293: every step id an order relation names must be a step's id.
CheckOrder ==
  /\ pc = "order"
  /\ IF missing_order_ids(yaml_data) # {}
     THEN /\ \E errors \in missing_id_errors(missing_order_ids(yaml_data)) :
               log' = log \o errors
          /\ pc' = "exit"
     ELSE /\ pc' = "resolve"
          /\ log' = log
  /\ UNCHANGED <<ontology_file, ONTOLOGY, opens, calls, parsed_yaml, cur, schema, steps,
                 entity_map, step_map, schema_slot_counter, sdf_schemas, json_data, returned>>

\* The lookup step_map[x]['id'] answering the authored step id itself.
step_ref_unresolved(map, x) == [idx |-> map[x].step_idx, id |-> x]

\* The lookups with the 0-based index of the step, as enumerate gives it.
step_ref_zero_based(map, x) == [idx |-> map[x].step_idx - 1, id |-> map[x].id]

\* Lines 298-301, 312-315, 329-330: the two lookups in step_map for one step id.
step_ref(map, x) == [idx |-> map[x].step_idx, id |-> map[x].id]

\* Lines 302-305, 316-319, 331-332: the warning for an empty id at position 0.
ref_warnings(refs) ==
  [i \in 1..Len(SelectSeq(refs, LAMBDA r : r.id = <<>> /\ r.idx = 0)) |->
     [level |-> "WARNING", what |-> "does not appear in the steps", args |-> <<<<>>>>]]

\* Lines 306-310.
before_order(before, after) ==
  [ret |-> ("comment" :> str(before.idx) \o <<" ", "p", "r", "e", "c", "e", "d", "e", "s", " ">> \o str(after.idx)) @@
           ("before" :> before.id) @@ ("after" :> after.id),
   log |-> ref_warnings(<<before, after>>)]

\* Lines 320-324.
container_order(container, contained) ==
  [ret |-> ("comment" :> str(container.idx) \o <<" ", "c", "o", "n", "t", "a", "i", "n", "s", " ">> \o str(contained.idx)) @@
           ("container" :> container.id) @@ ("contained" :> contained.id),
   log |-> ref_warnings(<<container, contained>>)]

\* Lines 335-338.
overlaps_order(overlaps) ==
  [ret |-> ("comment" :> join(<<",", " ">>, [i \in 1..Len(overlaps) |-> str(overlaps[i].idx)])
                           \o <<" ", "o", "v", "e", "r", "l", "a", "p", "s">>) @@
           ("overlaps" :> [i \in 1..Len(overlaps) |-> overlaps[i].id]),
   log |-> ref_warnings(overlaps)]

\* Lines 297-340: one order relation resolved.
resolve_order(order, map) ==
  IF "before" \in DOMAIN order
  THEN before_order(step_ref(map, order.before), step_ref(map, order.after))
  ELSE IF "container" \in DOMAIN order
  THEN container_order(step_ref(map, order.container), step_ref(map, order.contained))
  ELSE overlaps_order([i \in 1..Len(order.overlaps) |-> step_ref(map, order.overlaps[i])])

\* Lines 342-363 and line 432.
SchemaReturned(resolved) ==
  /\ schema' = put(put(schema, "order", [i \in 1..Len(resolved) |-> resolved[i].ret]),
                   "entityRelations", <<>>)
  /\ sdf_schemas' = Append(sdf_schemas, schema')
  /\ log' = log \o concat([i \in 1..Len(resolved) |-> resolved[i].log])

\* Lines 295-363: the order relations resolved, the (disabled) entity relations, and
\* the return to line 431-432 of convert_all_yaml_to_sdf.
ResolveOrder ==
  /\ pc = "resolve"
  /\ SchemaReturned([i \in 1..Len(yaml_data.order) |->
                       resolve_order(yaml_data.order[i], step_map)])
  /\ cur' = cur + 1
  /\ pc' = "convert_all"
  /\ UNCHANGED <<ontology_file, ONTOLOGY, opens, calls, parsed_yaml, steps, entity_map,
                 step_map, schema_slot_counter, json_data, returned>>

----------------------------------------------------------------------------
(* yaml2sdf.py, convert_all_yaml_to_sdf *)

\* json_file.stem, the library_id argument.
library_id == <<"l", "i", "b">>

merge_schemas(schema_list, id) ==
  ("@context" :> <<<<"h", "t", "t", "p", "s", ":", "/", "/", "k", "a", "i", "r", "o", "s", "-", "s", "d", "f", ".", "s", "3", ".", "a", "m", "a", "z", "o", "n", "a", "w", "s", ".", "c", "o", "m", "/", "c", "o", "n", "t", "e", "x", "t", "/", "k", "a", "i", "r", "o", "s", "-", "v", "0", ".", "8", "1", ".", "j", "s", "o", "n", "l", "d">>>>) @@
  ("sdfVersion" :> <<"0", ".", "8", "1">>) @@ ("@id" :> id) @@ ("schemas" :> schema_list)

\* Line 434, once the loop of line 430 has converted every schema.
MergeSchemas ==
  /\ pc = "convert_all"
  /\ cur > Len(parsed_yaml)
  /\ json_data' = merge_schemas(sdf_schemas, library_id)
  /\ pc' = "validate"
  /\ UNCHANGED <<ontology_file, ONTOLOGY, opens, calls, parsed_yaml, cur, schema, steps,
                 entity_map, step_map, schema_slot_counter, sdf_schemas, returned, log>>

\* What the validator may answer: its two message lists.
Responses ==
  {[errorsList |-> <<>>, warningsList |-> <<>>],
   [errorsList |-> <<<<"b", "a", "d">>>>, warningsList |-> <<<<"o", "d", "d">>>>]}

\* How requests.post(..., timeout=10) may end: a response, requests.exceptions.Timeout
\* (no answer within the 10 seconds), or requests.exceptions.ConnectionError (the host
\* cannot be reached: refused connection, failed name lookup), which is no Timeout.
PostOutcomes ==
  {[kind |-> "response", json |-> r] : r \in Responses} \cup
  {[kind |-> "Timeout"], [kind |-> "ConnectionError"]}

\* Lines 406-411: the validator's messages printed.
printed(validator_messages, out) ==
  IF validator_messages # <<>>
  THEN out \o <<[level |-> "PRINT", what |-> "Messages from program validator:", args |-> <<>>]>>
           \o [i \in 1..Len(validator_messages) |->
                 [level |-> "PRINT", what |-> "message", args |-> <<validator_messages[i]>>]]
  ELSE out

\* validate_schemas: the output it leaves and whether an exception leaves it.
validate_schemas(outcome, out) ==
  IF outcome.kind = "Timeout"
  THEN [log |-> Append(out, [level |-> "WARNING", what |-> "Program validator is unavailable",
                             args |-> <<>>]),
        raised |-> FALSE]
  ELSE IF outcome.kind = "response"
  THEN [log |-> printed(outcome.json.errorsList \o outcome.json.warningsList, out),
        raised |-> FALSE]
  ELSE [log |-> out, raised |-> TRUE]

\* Line 438, or the exception that leaves line 436.
Validated(v) ==
  /\ log' = v.log
  /\ IF v.raised
     THEN pc' = "raised" /\ returned' = returned
     ELSE pc' = "returned" /\ returned' = json_data

\* Lines 436-438.
ValidateAndReturn ==
  /\ pc = "validate"
  /\ \E outcome \in PostOutcomes : Validated(validate_schemas(outcome, log))
  /\ UNCHANGED <<ontology_file, ONTOLOGY, opens, calls, parsed_yaml, cur, schema, steps,
                 entity_map, step_map, schema_slot_counter, sdf_schemas, json_data>>

----------------------------------------------------------------------------
(* The inputs: ontology documents and authored schemas *)

MaxSteps == 2
MaxSlots == 2
MaxSchemaSlots == 1
MaxTotalSlots == 3
MaxOverlaps == 2
MaxCopies == 2
MaxOrders == 1
MaxFieldSlots == 1

SeqUpTo(S, n) == UNION {[1..k -> S] : k \in 0..n}

\* An ontology.json that knows one event type, with one role, and one entity type.
PartialOntology ==
  [events |-> (<<"T", ".", "U", ".", "U", "n", "s", "p", "e", "c", "i", "f", "i", "e", "d">> :> [type |-> <<"T", ".", "U", ".", "U", "n", "s", "p", "e", "c", "i", "f", "i", "e", "d">>, args |-> {<<"D">>}]),
   entities |-> {<<"P", "E", "R">>}]

\* An ontology.json that knows nothing.
EmptyOntology == [events |-> <<>>, entities |-> {}]

Roles == {<<"D">>, <<"D", "a", "T">>}
Primitives == {<<"T">>, <<"T", ".", "U">>, <<"T", ".", "U", ".", "V">>, <<"T", ".", "U", ".", "V", ".", "W">>, <<>>}
StepIds == {<<"s", "1">>, <<"s", "-", "2">>}
OrderIds == StepIds \cup {<<"z", "z">>}

Slot(role, refvar, constraints, reference, comment) ==
  [role |-> role, refvar |-> refvar, constraints |-> constraints, reference |-> reference,
   comment |-> comment]

\* yaml_schema.Slot with only role and refvar set.
PlainSlots ==
  {Slot(x[1], x[2], NoneList, None, None) :
     x \in {<<<<"D">>, None>>, <<<<"D">>, <<"b">>>>, <<<<"D">>, <<"x">>>>,
            <<<<"D", "a", "T">>, None>>, <<<<"D", "a", "T">>, <<"b">>>>}}

\* yaml_schema.Slot with the optional fields set or not.
FullSlots ==
  {Slot(r, x[1], x[2], x[3], x[4]) :
     r \in Roles,
     x \in {<<None, NoneList, None, None>>,
            <<<<"b">>, <<<<"P", "E", "R">>>>, None, None>>,
            <<None, <<<<"P", "E", "R">>, <<"Z", "Z">>>>, <<"w", "i", "k", "i", ":", "Q", "5">>, <<"w", "h", "o">>>>}}

\* yaml_schema.Before, Container and Overlaps.
Orders ==
  {[before |-> a, after |-> b, comment |-> None] : a, b \in OrderIds} \cup
  {[container |-> a, contained |-> b, comment |-> None] : a, b \in OrderIds} \cup
  {[overlaps |-> o, comment |-> None] : o \in SeqUpTo(OrderIds, MaxOverlaps)}

\* The order relations between declared steps that the longer order lists are made of.
PlainOrders ==
  {[before |-> <<"s", "1">>, after |-> <<"s", "-", "2">>, comment |-> None],
   [container |-> <<"s", "-", "2">>, contained |-> <<"s", "1">>, comment |-> None],
   [overlaps |-> <<<<"s", "1">>, <<"s", "-", "2">>>>, comment |-> None],
   [before |-> <<"s", "1">>, after |-> <<"z", "z">>, comment |-> None]}

Step(id, primitive, comment, slots) ==
  [id |-> id, primitive |-> primitive, comment |-> comment, slots |-> slots]

Schema(id, schema_slots, schema_steps, schema_order) ==
  [schema_id |-> id, schema_name |-> <<"N", "a", "m", "e">>, schema_dscpt |-> <<"D", "s", "c", "p", "t">>,
   schema_version |-> <<"v", "1">>, slots |-> schema_slots, steps |-> schema_steps,
   order |-> schema_order, comment |-> None]

\* The sum of a list of numbers.
RECURSIVE sum(_)
sum(lens) == IF lens = <<>> THEN 0 ELSE Head(lens) + sum(Tail(lens))

\* The slot lists of the given lengths, cut in order from one list of slots.
RECURSIVE cut(_, _, _)
cut(flat, lens, from) ==
  IF lens = <<>> THEN <<>>
  ELSE <<SubSeq(flat, from + 1, from + Head(lens))>> \o
       cut(flat, Tail(lens), from + Head(lens))

\* How many slots the schema and each of its steps have.
Shapes ==
  {y \in (0..MaxSchemaSlots) \X SeqUpTo(0..MaxSlots, MaxSteps) :
     y[1] + sum(y[2]) <= MaxTotalSlots}

\* A schema with the given schema-level slots and steps s1, s2, ... in order, chained
\* by precedence, each with the given slots.
SlotSchema(schema_slots, step_slots) ==
  Schema(<<"S">>, schema_slots,
         [i \in 1..Len(step_slots) |-> Step(<<"s">> \o str(i), <<"T", ".", "U">>, None, step_slots[i])],
         [i \in 1..(Len(step_slots) - 1) |->
            [before |-> <<"s">> \o str(i), after |-> <<"s">> \o str(i + 1), comment |-> None]])

\* Schemas that vary in their slots' roles and refvars.
SlotSchemas ==
  UNION {{SlotSchema(SubSeq(flat, 1, y[1]), cut(flat, y[2], y[1])) :
            flat \in [1..(y[1] + sum(y[2])) -> PlainSlots]} : y \in Shapes}

\* Schemas that vary in their step ids and order relations.
OrderSchemas ==
  {Schema(<<"S">>, <<>>, [i \in 1..Len(ids) |-> Step(ids[i], <<"T", ".", "U">>, None, <<>>)], o) :
     ids \in SeqUpTo(StepIds, MaxSteps),
     o \in SeqUpTo(Orders, MaxOrders) \cup (PlainOrders \X PlainOrders)}

\* Schemas that vary in the step's primitive and comment.
TypeSchemas ==
  {Schema(<<"S">>, <<>>, <<Step(<<"s", "1">>, p, c, s)>>, <<>>) :
     p \in Primitives, c \in {None, <<"f", "i", "r", "s", "t">>},
     s \in SeqUpTo({Slot(r, <<"b">>, NoneList, None, None) : r \in Roles}, MaxFieldSlots)}

\* Schemas that vary in the schema id, the step's primitive and the slots' optional
\* fields.
FieldSchemas ==
  {Schema(id, ss, <<Step(<<"s", "1">>, p, None, st)>>, <<>>) :
     id \in {<<"S">>, <<"a", "/", "T", ".", "U", ".", "U", "n", "s", "p", "e", "c", "i", "f", "i", "e", "d">>}, p \in {<<"T">>, <<"T", ".", "U">>},
     ss \in SeqUpTo(FullSlots, MaxFieldSlots), st \in SeqUpTo(FullSlots, MaxFieldSlots)}

\* The libraries convert_all_yaml_to_sdf is given: the empty one, one schema, or the
\* same schema several times over.
Libraries ==
  {<<>>} \cup
  {<<s>> : s \in SlotSchemas \cup OrderSchemas \cup TypeSchemas \cup FieldSchemas} \cup
  {[i \in 1..n |-> s] : n \in 2..MaxCopies, s \in {t \in SlotSchemas : Len(t.steps) <= 1}}

----------------------------------------------------------------------------
(* The process *)

Init ==
  /\ \/ ontology_file = PartialOntology /\ parsed_yaml \in Libraries
     \/ ontology_file = EmptyOntology /\ parsed_yaml \in {<<s>> : s \in TypeSchemas \cup FieldSchemas}
  /\ ONTOLOGY = NoneMapping
  /\ opens = 0
  /\ calls = 0
  /\ pc = "convert_all"
  /\ cur = 1
  /\ schema = <<>>
  /\ steps = <<>>
  /\ entity_map = <<>>
  /\ step_map = <<>>
  /\ schema_slot_counter = <<>>
  /\ sdf_schemas = <<>>
  /\ json_data = NoneMapping
  /\ returned = NoneMapping
  /\ log = <<>>

Next ==
  \/ BeginSchema
  \/ ConvertStep
  \/ ConvertSlots
  \/ CleanSuffix
  \/ CheckOrder
  \/ ResolveOrder
  \/ MergeSchemas
  \/ ValidateAndReturn

Spec == Init /\ [][Next]_vars

----------------------------------------------------------------------------
(* Vocabulary of the properties *)

\* The authored schema that the k-th returned canonical schema was compiled from.
authored(k) == parsed_yaml[k]

\* The canonical slots of a canonical schema in synthesis order: every step's
\* participants, steps in declaration order, then the schema-level slots.
all_slots(out) ==
  concat([i \in 1..Len(out["steps"]) |-> out["steps"][i]["participants"]]) \o out["slots"]

\* The authored slots of an authored schema, in the same order.
all_authored_slots(data) ==
  concat([i \in 1..Len(data.steps) |-> data.steps[i].slots]) \o data.slots

\* The step ids an authored order relation names, read off its fields.
referenced_ids(order) ==
  IF "before" \in DOMAIN order THEN {order.before, order.after}
  ELSE IF "container" \in DOMAIN order THEN {order.container, order.contained}
  ELSE {order.overlaps[i] : i \in 1..Len(order.overlaps)}

\* The referenced step ids of an authored schema that no declared step has.
undeclared_ids(data) ==
  UNION {referenced_ids(data.order[i]) : i \in 1..Len(data.order)}
    \ {data.steps[i].id : i \in 1..Len(data.steps)}

\* The endpoints of a canonical order relation.
endpoints(order) ==
  IF "before" \in DOMAIN order THEN {order["before"], order["after"]}
  ELSE IF "container" \in DOMAIN order THEN {order["container"], order["contained"]}
  ELSE {order["overlaps"][i] : i \in 1..Len(order["overlaps"])}

\* The process is inside convert_yaml_to_sdf for parsed_yaml[cur].
Compiling == pc \in {"steps", "clean", "order", "resolve", "exit"}

\* The entries of the output that logging wrote at one level.
logged(level) == SelectSeq(log, LAMBDA e : e.level = level)

\* The entries of the output with one message.
logged_what(what) == SelectSeq(log, LAMBDA e : e.what = what)

\* s ends with the two characters "-" and c.
ends_with_suffix(s, c) == Len(s) >= 2 /\ s[Len(s) - 1] = "-" /\ s[Len(s)] = c

\* s ends with "-" and a lower case letter.
has_letter_suffix(s) == \E n \in 97..122 : ends_with_suffix(s, chr(n))

\* How many of the first n elements of the list satisfy the test.
count_upto(list, n, Test(_)) == Cardinality({i \in 1..n : Test(list[i])})

----------------------------------------------------------------------------
(* C1 -- uniqueness of slot ids *)

\* The @ids of slots are pairwise distinct.
distinct_ids(slots) ==
  \A a, b \in 1..Len(slots) : a # b => slots[a]["@id"] # slots[b]["@id"]

\* C1: in every canonical schema that convert_yaml_to_sdf returns, no two canonical
\* slots (all steps' participants together with the schema-level slots) have the
\* same final @id.
C1_SlotIdsUnique ==
  \A k \in 1..Len(sdf_schemas) : distinct_ids(all_slots(sdf_schemas[k]))

----------------------------------------------------------------------------
(* C2 -- disambiguator minimality *)

\* The claim for the slot at position j of one container: a role that is alone in
\* the container has no "-letter" suffix, and the n-th slot of a role that occurs
\* more than once has the n-th letter for suffix.
minimal_in_container(container, slots, j) ==
  IF count_upto(container, Len(container), LAMBDA s : s.role = container[j].role) = 1
  THEN ~has_letter_suffix(slots[j]["@id"])
  ELSE ends_with_suffix(slots[j]["@id"],
                        chr(96 + count_upto(container, j, LAMBDA s : s.role = container[j].role)))

\* The claim for every slot of one container.
minimal_container(container, slots) ==
  \A j \in 1..Len(container) : minimal_in_container(container, slots, j)

minimal_in_schema(id, slots, n_step, j) ==
  IF count_upto(slots, Len(slots), LAMBDA s : s["name"] = slots[j]["name"]) = 1
  THEN j <= n_step => ~ends_with_suffix(slots[j]["@id"], "a")
  ELSE slots[j]["@id"] =
         id \o <<"/", "S", "l", "o", "t", "s", "/">> \o slots[j]["name"] \o <<"-">>
            \o <<chr(96 + count_upto(slots, j, LAMBDA s : s["name"] = slots[j]["name"]))>>

----------------------------------------------------------------------------
(* C3 -- referential integrity of the order relations *)

\* C3: in every returned canonical schema, every endpoint of every order relation is
\* the @id of a step of that schema's steps list.
C3_OrderEndpointsAreSteps ==
  \A k \in 1..Len(sdf_schemas) :
    \A i \in 1..Len(sdf_schemas[k]["order"]) :
      endpoints(sdf_schemas[k]["order"][i])
        \subseteq {sdf_schemas[k]["steps"][n]["@id"] : n \in 1..Len(sdf_schemas[k]["steps"])}

\* A returned schema with a precedence and an overlap of two members.
C3_Witness ==
  \E k \in 1..Len(sdf_schemas) :
    /\ Len(sdf_schemas[k]["order"]) = 2
    /\ "before" \in DOMAIN sdf_schemas[k]["order"][1]
    /\ "overlaps" \in DOMAIN sdf_schemas[k]["order"][2]
    /\ Len(sdf_schemas[k]["order"][2]["overlaps"]) = 2

----------------------------------------------------------------------------
(* C4 -- an order relation that names an undeclared step is fatal *)

\* C4: a schema with an order relation that names an undeclared step id is never
\* returned and never reaches the resolution of its order relations; the process
\* exits with no order relation resolved, nothing returned, and exactly one error
\* message for every distinct undeclared id.
C4_MissingReferenceIsFatal ==
  /\ \A k \in 1..Len(sdf_schemas) : undeclared_ids(authored(k)) = {}
  /\ pc = "resolve" => undeclared_ids(yaml_data) = {}
  /\ pc = "exit" =>
       /\ undeclared_ids(yaml_data) # {}
       /\ schema["order"] = <<>>
       /\ Len(sdf_schemas) = cur - 1
       /\ json_data = NoneMapping /\ returned = NoneMapping
       /\ Len(logged("ERROR")) = Cardinality(undeclared_ids(yaml_data))
       /\ {e.args[1] : e \in elements(logged("ERROR"))} = undeclared_ids(yaml_data)
  /\ (Compiling /\ pc # "exit" /\ undeclared_ids(yaml_data) # {}) => logged("ERROR") = <<>>

\* The process has exited on a schema whose order names two undeclared step ids.
C4_Witness ==
  /\ pc = "exit"
  /\ Cardinality(undeclared_ids(yaml_data)) = 2
  /\ Len(logged("ERROR")) = 2

----------------------------------------------------------------------------
(* C5 -- type padding *)

\* The number of "." in a primitive.
dots(primitive) == Cardinality({i \in 1..Len(primitive) : primitive[i] = "."})

\* The type URI the claim gives a primitive.
padded_type(primitive) ==
  <<"k", "a", "i", "r", "o", "s", ":", "P", "r", "i", "m", "i", "t", "i", "v", "e", "s", "/", "E", "v", "e", "n", "t", "s", "/">> \o primitive \o
  (IF dots(primitive) = 0 THEN <<".", "U", "n", "s", "p", "e", "c", "i", "f", "i", "e", "d", ".", "U", "n", "s", "p", "e", "c", "i", "f", "i", "e", "d">>
   ELSE IF dots(primitive) = 1 THEN <<".", "U", "n", "s", "p", "e", "c", "i", "f", "i", "e", "d">>
   ELSE <<>>)

\* C5: the @type of every converted step is kairos:Primitives/Events/ followed by the
\* primitive, right-padded with Unspecified segments to three segments when it has
\* fewer, whether or not the ontology knows the type.
C5_TypePadding ==
  Compiling =>
    \A i \in 1..Len(steps) : steps[i]["@type"] = padded_type(yaml_data.steps[i].primitive)

\* A step with a one-segment primitive, which the ontology does not know, is converted.
C5_Witness ==
  /\ Compiling
  /\ \E i \in 1..Len(steps) :
       /\ dots(yaml_data.steps[i].primitive) = 0
       /\ yaml_data.steps[i].primitive # <<>>
       /\ logged_what("Primitive not in ontology") # <<>>

----------------------------------------------------------------------------
(* C6 -- determinism *)

\* C6: two compilations of the same authored schema return the same canonical schema,
\* whatever placeholders random.random() gave the slots without refvar.
C6_Determinism ==
  \A i, j \in 1..Len(sdf_schemas) : authored(i) = authored(j) => sdf_schemas[i] = sdf_schemas[j]

\* The same schema, with a slot without refvar and two slots of one derived name, has
\* been compiled twice.
C6_Witness ==
  /\ Len(sdf_schemas) = 2
  /\ authored(1) = authored(2)
  /\ \E a, b \in 1..Len(all_slots(sdf_schemas[2])) :
       /\ a # b
       /\ all_slots(sdf_schemas[2])[a]["name"] = all_slots(sdf_schemas[2])[b]["name"]
       /\ "refvar" \notin DOMAIN all_slots(sdf_schemas[2])[a]

----------------------------------------------------------------------------
(* C7 -- refvar carried through *)

\* The canonical slot has the refvar of the authored slot, or none if that has none.
refvar_carried(slot, out) ==
  IF slot.refvar # None
  THEN "refvar" \in DOMAIN out /\ out["refvar"] = slot.refvar
  ELSE "refvar" \notin DOMAIN out

\* The canonical slots are as many as the authored ones and carry their refvars.
refvars_carried(container, slots) ==
  /\ Len(slots) = Len(container)
  /\ \A j \in 1..Len(container) : refvar_carried(container[j], slots[j])

\* C7: every canonical slot carries the refvar of the authored slot at its position,
\* and no refvar field when that slot has none; the process stops short of returning
\* only for an undeclared step id in an order relation or in the validator call.
C7_RefvarCarried ==
  /\ \A k \in 1..Len(sdf_schemas) :
       /\ refvars_carried(authored(k).slots, sdf_schemas[k]["slots"])
       /\ Len(sdf_schemas[k]["steps"]) = Len(authored(k).steps)
       /\ \A i \in 1..Len(authored(k).steps) :
            refvars_carried(authored(k).steps[i].slots, sdf_schemas[k]["steps"][i]["participants"])
  /\ pc = "exit" => undeclared_ids(yaml_data) # {}
  /\ pc = "raised" => json_data # NoneMapping

\* A returned schema whose two steps each have a slot with the refvar "b", and which
\* has a slot without refvar.
C7_Witness ==
  \E k \in 1..Len(sdf_schemas) :
    /\ Len(sdf_schemas[k]["steps"]) = 2
    /\ \A i \in 1..2 : \E j \in 1..Len(sdf_schemas[k]["steps"][i]["participants"]) :
         /\ "refvar" \in DOMAIN sdf_schemas[k]["steps"][i]["participants"][j]
         /\ sdf_schemas[k]["steps"][i]["participants"][j]["refvar"] = <<"b">>
    /\ \E j \in 1..Len(all_slots(sdf_schemas[k])) :
         "refvar" \notin DOMAIN all_slots(sdf_schemas[k])[j]

----------------------------------------------------------------------------
(* C8 -- ontology lookup misses *)

\* The entityTypes the claim gives an authored slot: one URI per constraint.
entity_uris(slot) ==
  IF slot.constraints = NoneList THEN <<>>
  ELSE [i \in 1..Len(slot.constraints) |-> <<"k", "a", "i", "r", "o", "s", ":", "P", "r", "i", "m", "i", "t", "i", "v", "e", "s", "/", "E", "n", "t", "i", "t", "i", "e", "s", "/">> \o slot.constraints[i]]

\* The canonical slot has the role URI and the entity types of a compilation in
\* which every lookup succeeds; key is the key its role URI is kept under.
as_if_known(slot, out, owner, key) ==
  /\ out[key] = owner \o <<"/", "S", "l", "o", "t", "s", "/">> \o slot.role
  /\ IF entity_uris(slot) = <<>> THEN "entityTypes" \notin DOMAIN out
     ELSE "entityTypes" \in DOMAIN out /\ out["entityTypes"] = entity_uris(slot)

\* The constraints of the authored slots that the loaded ontology does not know.
unknown_entities(slots) ==
  concat([j \in 1..Len(slots) |->
            IF slots[j].constraints = NoneList THEN <<>>
            ELSE SelectSeq(slots[j].constraints, LAMBDA e : e \notin ontology_file.entities)])

\* The steps whose padded type the loaded ontology does not know.
unknown_steps(data) ==
  {i \in 1..Len(data.steps) :
     padded_type(data.steps[i].primitive) \notin
       {<<"k", "a", "i", "r", "o", "s", ":", "P", "r", "i", "m", "i", "t", "i", "v", "e", "s", "/", "E", "v", "e", "n", "t", "s", "/">> \o t : t \in DOMAIN ontology_file.events}}

\* The authored slots whose role the loaded ontology does not permit for the event
\* type it has under key.
invalid_roles(slots, key) ==
  IF key \in DOMAIN ontology_file.events
  THEN SelectSeq(slots, LAMBDA s : s.role \notin ontology_file.events[key].args)
  ELSE <<>>

\* The slots of an authored schema with a role the loaded ontology does not permit.
all_invalid_roles(data) ==
  concat([i \in 1..Len(data.steps) |->
            invalid_roles(data.steps[i].slots,
                          last_segment(padded_type(data.steps[i].primitive)))])
    \o invalid_roles(data.slots, last_segment(data.schema_id))

\* C8: whatever the loaded ontology knows, every returned schema has the step types,
\* role URIs and entity types of a compilation in which every lookup succeeds, no
\* lookup miss stops the process, and every unknown step type, role that is not
\* permitted and unknown entity constraint of a returned schema has left one warning.
C8_LookupMissesNotFatal ==
  /\ \A k \in 1..Len(sdf_schemas) :
       /\ \A j \in 1..Len(authored(k).slots) :
            as_if_known(authored(k).slots[j], sdf_schemas[k]["slots"][j],
                        authored(k).schema_id, "roleName")
       /\ \A i \in 1..Len(authored(k).steps) :
            /\ sdf_schemas[k]["steps"][i]["@type"] = padded_type(authored(k).steps[i].primitive)
            /\ \A j \in 1..Len(authored(k).steps[i].slots) :
                 as_if_known(authored(k).steps[i].slots[j],
                             sdf_schemas[k]["steps"][i]["participants"][j],
                             padded_type(authored(k).steps[i].primitive), "role")
  /\ pc = "exit" => undeclared_ids(yaml_data) # {}
  /\ pc = "raised" => json_data # NoneMapping
  /\ pc \in {"convert_all", "validate", "returned"} =>
       /\ Len(logged_what("Entity not in ontology"))
            = Len(concat([k \in 1..Len(sdf_schemas) |->
                            unknown_entities(all_authored_slots(authored(k)))]))
       /\ Len(logged_what("Primitive not in ontology"))
            = Len(concat([k \in 1..Len(sdf_schemas) |->
                            [i \in 1..Cardinality(unknown_steps(authored(k))) |-> i]]))
       /\ Len(logged_what("Role is not valid for event"))
            = Len(concat([k \in 1..Len(sdf_schemas) |-> all_invalid_roles(authored(k))]))
       /\ \A i \in 1..Len(log) : log[i].level \in {"WARNING", "PRINT"}

\* The library is returned although a step type, a role and an entity constraint of
\* its schema are not in the ontology.
C8_Witness ==
  /\ pc = "returned"
  /\ Len(sdf_schemas) = 1
  /\ logged_what("Entity not in ontology") # <<>>
  /\ logged_what("Primitive not in ontology") # <<>>
  /\ ontology_file = PartialOntology
  /\ logged_what("Role is not valid for event") # <<>>

----------------------------------------------------------------------------
(* C9 -- the validator call is advisory *)

\* C9: once the library is merged and the validator call is over, the library has
\* been returned unchanged, however the call ended.
C9_ValidationIsAdvisory ==
  (json_data # NoneMapping /\ pc # "validate") => (pc = "returned" /\ returned = json_data)

----------------------------------------------------------------------------
(* C10 -- the ontology is loaded once *)

\* C10: ontology.json is read on the first call of get_ontology and never again, and
\* the cached ontology stays the document that was read.
C10_OntologyReadOnce ==
  /\ opens = (IF calls > 0 THEN 1 ELSE 0)
  /\ ONTOLOGY = (IF calls > 0 THEN ontology_file ELSE NoneMapping)

\* get_ontology has been called several times, in the compilation of two schemas.
C10_Witness ==
  /\ calls > 3
  /\ Len(sdf_schemas) = 2
  /\ opens = 1

----------------------------------------------------------------------------
(* C11 -- the role URI of a slot *)

\* The role URI of an authored slot whose owner has the given type URI.
role_uri(owner, slot) == owner \o <<"/", "S", "l", "o", "t", "s", "/">> \o slot.role

\* The canonical slots have, under the given key, the role URIs of the authored slots
\* of one container.
roles_under(key, owner, container, slots) ==
  /\ Len(slots) = Len(container)
  /\ \A j \in 1..Len(container) :
       /\ key \in DOMAIN slots[j]
       /\ slots[j][key] = role_uri(owner, container[j])

\* C11 as stated: every canonical slot of a returned schema, participant of a step or
\* schema-level slot, has a field role with the value {owner type URI}/Slots/{role},
\* the owner type being the step's @type or the schema id.
C11_RoleField ==
  \A k \in 1..Len(sdf_schemas) :
    /\ roles_under("role", authored(k).schema_id, authored(k).slots, sdf_schemas[k]["slots"])
    /\ \A i \in 1..Len(authored(k).steps) :
         roles_under("role", sdf_schemas[k]["steps"][i]["@type"],
                     authored(k).steps[i].slots, sdf_schemas[k]["steps"][i]["participants"])

\* C11 amended: every participant of a step has a field role with the value
\* {step's @type}/Slots/{role}; every schema-level slot has a field roleName with the
\* value {schema id}/Slots/{role}, and no field role.
C11_RoleOrRoleName ==
  \A k \in 1..Len(sdf_schemas) :
    /\ roles_under("roleName", authored(k).schema_id, authored(k).slots,
                   sdf_schemas[k]["slots"])
    /\ \A j \in 1..Len(sdf_schemas[k]["slots"]) : "role" \notin DOMAIN sdf_schemas[k]["slots"][j]
    /\ \A i \in 1..Len(authored(k).steps) :
         /\ sdf_schemas[k]["steps"][i]["@type"] = padded_type(authored(k).steps[i].primitive)
         /\ roles_under("role", sdf_schemas[k]["steps"][i]["@type"],
                        authored(k).steps[i].slots, sdf_schemas[k]["steps"][i]["participants"])
         /\ \A j \in 1..Len(sdf_schemas[k]["steps"][i]["participants"]) :
              "roleName" \notin DOMAIN sdf_schemas[k]["steps"][i]["participants"][j]

\* A returned schema with a schema-level slot and a step that has a participant.
C11_Witness ==
  \E k \in 1..Len(sdf_schemas) :
    /\ sdf_schemas[k]["slots"] # <<>>
    /\ \E i \in 1..Len(sdf_schemas[k]["steps"]) : sdf_schemas[k]["steps"][i]["participants"] # <<>>

----------------------------------------------------------------------------
(* C12 -- the suffix cleanup *)

\* The cleanup of the schema being compiled is over.
Cleaned == pc \in {"order", "resolve", "exit"}

\* The value the entity map holds for an authored slot: its refvar, or a placeholder.
entity_value_of(slot, value) ==
  IF slot.refvar # None THEN value = slot.refvar ELSE value \in Randoms

\* The claim for the canonical slot at position j of the schema being compiled.
cleaned_exactly(j) ==
  IF count(schema_slot_counter, all_slots(schema)[j]["name"]) = 1
  THEN /\ all_slots(schema)[j]["@id"] =
            yaml_data.schema_id \o <<"/", "S", "l", "o", "t", "s", "/">> \o all_slots(schema)[j]["name"]
       /\ all_slots(schema)[j]["@id"] \in DOMAIN entity_map
       /\ entity_value_of(all_authored_slots(yaml_data)[j],
                          entity_map[all_slots(schema)[j]["@id"]])
  ELSE has_letter_suffix(all_slots(schema)[j]["@id"])

\* C12: once the cleanup of a schema is over, every slot, of a step or of the schema,
\* whose derived name has a final counter of 1 has the @id {schema id}/Slots/{name}
\* and the entity map holds its value under that @id, and every slot whose derived name
\* has a final counter above 1 still has its letter suffix.
C12_CleanupExact ==
  Cleaned => \A j \in 1..Len(all_slots(schema)) : cleaned_exactly(j)

----------------------------------------------------------------------------
(* C13 -- order resolution *)

\* No two declared steps of an authored schema have the same id.
unique_step_ids(data) ==
  \A a, b \in 1..Len(data.steps) : a # b => data.steps[a].id # data.steps[b].id

\* The 1-based position of the declared step with the given id, as a str.
position(data, id) == str(CHOOSE i \in 1..Len(data.steps) : data.steps[i].id = id)

\* {schema id}/Steps/{step id}.
step_uri(data, id) == data.schema_id \o <<"/", "S", "t", "e", "p", "s", "/">> \o id

\* The canonical relation the claim gives an authored order relation.
expected_order(data, order) ==
  IF "before" \in DOMAIN order
  THEN ("comment" :> position(data, order.before) \o <<" ", "p", "r", "e", "c", "e", "d", "e", "s", " ">>
                       \o position(data, order.after)) @@
       ("before" :> step_uri(data, order.before)) @@
       ("after" :> step_uri(data, order.after))
  ELSE IF "container" \in DOMAIN order
  THEN ("comment" :> position(data, order.container) \o <<" ", "c", "o", "n", "t", "a", "i", "n", "s", " ">>
                       \o position(data, order.contained)) @@
       ("container" :> step_uri(data, order.container)) @@
       ("contained" :> step_uri(data, order.contained))
  ELSE ("comment" :> join(<<",", " ">>, [i \in 1..Len(order.overlaps) |->
                                     position(data, order.overlaps[i])])
                       \o <<" ", "o", "v", "e", "r", "l", "a", "p", "s">>) @@
       ("overlaps" :> [i \in 1..Len(order.overlaps) |-> step_uri(data, order.overlaps[i])])

\* C13: a schema with unique step ids whose order relations name declared steps only
\* is compiled to the end, and its returned order list has one entry per authored
\* relation, in the same sequence, with every step id replaced by
\* {schema id}/Steps/{step id} and the comment made of the steps' 1-based positions;
\* overlaps of no or one member included.
C13_OrderResolved ==
  /\ \A k \in 1..Len(sdf_schemas) :
       (unique_step_ids(authored(k)) /\ undeclared_ids(authored(k)) = {}) =>
         /\ Len(sdf_schemas[k]["order"]) = Len(authored(k).order)
         /\ \A i \in 1..Len(authored(k).order) :
              sdf_schemas[k]["order"][i] = expected_order(authored(k), authored(k).order[i])
  /\ (pc \in {"exit", "raised"} /\ json_data = NoneMapping) => undeclared_ids(yaml_data) # {}

\* A returned schema with two steps of different ids and two order relations, the
\* first of which is the containment of the first step in the second.
C13_Witness ==
  \E k \in 1..Len(sdf_schemas) :
    /\ Len(authored(k).steps) = 2
    /\ unique_step_ids(authored(k))
    /\ Len(sdf_schemas[k]["order"]) = 2
    /\ "container" \in DOMAIN sdf_schemas[k]["order"][1]
    /\ sdf_schemas[k]["order"][1]["comment"] = <<"2", " ", "c", "o", "n", "t", "a", "i", "n", "s", " ", "1">>

----------------------------------------------------------------------------
(* C14 -- the order in which disambiguators are assigned *)

\* The first CamelCase word of a role: its characters up to the second upper case
\* letter or, when the role does not start with one, up to the first.
first_word(role) ==
  SubSeq(role, 1, CHOOSE n \in 1..Len(role) :
                    /\ \A i \in 2..n : ~isupper(role[i])
                    /\ n < Len(role) => isupper(role[n + 1]))

\* The derived name the claim gives a slot of a container.
expected_name(slot, container) ==
  IF slot.refvar # None /\ \E a, b \in 1..Len(container) :
                             a # b /\ container[a].role = slot.role /\ container[b].role = slot.role
  THEN lower(first_word(slot.role)) \o <<"-">> \o slot.refvar
  ELSE lower(first_word(slot.role))

\* The derived names of the slots of one container, in declaration order.
expected_names_in(container) ==
  [j \in 1..Len(container) |-> expected_name(container[j], container)]

\* The derived names of all slots of an authored schema, in synthesis order.
expected_names(data) ==
  concat([i \in 1..Len(data.steps) |-> expected_names_in(data.steps[i].slots)])
    \o expected_names_in(data.slots)

\* The canonical slots synthesized so far for the schema being compiled.
synthesized ==
  concat([i \in 1..Len(steps) |-> steps[i]["participants"]])
    \o (IF "slots" \in DOMAIN schema THEN schema["slots"] ELSE <<>>)

\* How many of the first n names are the given name.
occurrences(names, n, name) == Cardinality({i \in 1..n : names[i] = name})

\* C14: until the cleanup, the slots synthesized for a schema are those of its steps in
\* declaration order and then the schema-level ones; the k-th slot synthesized with a
\* derived name has that name and the @id {schema id}/Slots/{name}-{chr(97 + k - 1)};
\* and the counter, which starts empty for every schema, holds for every name the
\* number of slots synthesized with it, whatever their containers.
C14_SuffixBySynthesisOrder ==
  pc \in {"steps", "clean"} =>
    /\ Len(synthesized) <= Len(expected_names(yaml_data))
    /\ pc = "clean" => Len(synthesized) = Len(expected_names(yaml_data))
    /\ \A j \in 1..Len(synthesized) :
         /\ synthesized[j]["name"] = expected_names(yaml_data)[j]
         /\ synthesized[j]["@id"] =
              yaml_data.schema_id \o <<"/", "S", "l", "o", "t", "s", "/">> \o expected_names(yaml_data)[j] \o <<"-">>
                \o <<chr(97 + occurrences(expected_names(yaml_data), j,
                                          expected_names(yaml_data)[j]) - 1)>>
    /\ DOMAIN schema_slot_counter =
         {expected_names(yaml_data)[j] : j \in 1..Len(synthesized)}
    /\ \A name \in DOMAIN schema_slot_counter :
         schema_slot_counter[name] =
           occurrences(expected_names(yaml_data), Len(synthesized), name)

\* The second schema of a library is ready for the cleanup: its step has a slot named
\* after its role and refvar, and a derived name is used by a slot of the step and by
\* the schema-level slot.
C14_Witness ==
  /\ pc = "clean"
  /\ cur = 2
  /\ schema["slots"] # <<>>
  /\ Len(steps) = 1
  /\ \E j \in 1..Len(steps[1]["participants"]) :
       /\ steps[1]["participants"][j]["name"] = <<"d", "-", "b">>
       /\ steps[1]["participants"][j]["@id"] = <<"S", "/", "S", "l", "o", "t", "s", "/", "d", "-", "b", "-", "a">>
  /\ schema["slots"][1]["@id"] = <<"S", "/", "S", "l", "o", "t", "s", "/", "d", "-", "b">>

----------------------------------------------------------------------------
(* C15 -- before the cleanup, ids are distinct and the entity map is complete *)

\* The authored slots that the slots synthesized so far were made from.
synthesized_from == SubSeq(all_authored_slots(yaml_data), 1, Len(synthesized))

\* C15: until the cleanup of a schema, the @ids of the slots synthesized for it are
\* pairwise distinct, and the entity map has exactly one entry for each of them, under
\* its @id, holding the slot's refvar or its placeholder.
C15_DistinctBeforeCleanup ==
  pc \in {"steps", "clean"} =>
    /\ distinct_ids(synthesized)
    /\ DOMAIN entity_map = {synthesized[j]["@id"] : j \in 1..Len(synthesized)}
    /\ Cardinality(DOMAIN entity_map) = Len(synthesized)
    /\ \A j \in 1..Len(synthesized) :
         entity_value_of(synthesized_from[j], entity_map[synthesized[j]["@id"]])

\* A schema is ready for the cleanup with three slots, two of which, in different
\* containers, have the same derived name.
C15_Witness ==
  /\ pc = "clean"
  /\ Len(synthesized) = 3
  /\ Cardinality(DOMAIN entity_map) = 3
  /\ Len(steps) = 2
  /\ \E a \in 1..Len(steps[1]["participants"]), b \in 1..Len(steps[2]["participants"]) :
       steps[1]["participants"][a]["name"] = steps[2]["participants"][b]["name"]

====
